---------------------------- MODULE Spec2Model ----------------------------
(***************************************************************************)
(* MeetNGreet backend: the session / response / score tables, the upload   *)
(* handler, the admin endpoints and the background evaluation threads of   *)
(* backend/app/routers/interview.py, with EvaluationService and            *)
(* ScoringService.                                                         *)
(*                                                                         *)
(* Granularity.  A request handler or a background thread is cut into      *)
(* steps at its blocking external calls (the awaited media store of the    *)
(* upload, one LLM / transcription round per question of an evaluation,    *)
(* the sleep between two background attempts, the lock of the runner's     *)
(* finally).  The database statements between two such calls are one step: *)
(* the round of the last response of an evaluation ends with the commit.   *)
(*                                                                         *)
(* ORM.  Every unit of work has its own SQLAlchemy session (autoflush off).*)
(* An attribute of a loaded row keeps the value it was loaded with until   *)
(* the unit commits, and a commit writes a column only when the value      *)
(* assigned differs from the value loaded.  An evaluation therefore        *)
(* carries the status it loaded (loaded_status) along.                     *)
(*                                                                         *)
(* Scores are fixed point: a score s in [0, 10] is the integer 100 * s.    *)
(* NULL of a nullable number is the empty set, a value v is {v}.           *)
(***************************************************************************)
EXTENDS Integers, Sequences, FiniteSets, TLC

\* ------------------------------------------------------------------ bounds
\* Session ids handed out by uuid4 during the run.
MaxSessions == 1
\* Questions assigned to every session (settings.question_count).
NumQuestions == 2
\* Upload requests suspended in the awaited media store at the same time.
MaxPendingUploads == 2
\* Admin manual-evaluate requests running at the same time.
MaxManualEvals == 1
\* Answers of the upload endpoint recorded per (session, question).
MaxRecorded == 2

\* ------------------------------------------------------- program constants
\* len(retry_delays) of _evaluate_session_background
RetryCount == 3

SessionIds == 1..MaxSessions
Questions == 1..NumQuestions
\* "old@" signed in before the process started (the startup backfill gave the
\* user row its candidate_id); "new@" signs in for the first time during the run.
Emails == {"old@", "new@"}

NULL == {}
Some(v) == {v}
Val(opt) == CHOOSE v \in opt : TRUE

\* ------------------------------------------------------------- arithmetic
Min(a, b) == IF a <= b THEN a ELSE b
Max(a, b) == IF a >= b THEN a ELSE b

\* round(n / d) to the nearest integer, ties to even (Python's round), n >= 0, d > 0
RoundDiv(n, d) ==
    LET q == n \div d
        r == n % d
    IN  IF 2 * r < d THEN q
        ELSE IF 2 * r > d THEN q + 1
        ELSE IF q % 2 = 0 THEN q ELSE q + 1

SetMax(S) == CHOOSE m \in S : \A x \in S : x <= m


\* ---------------------------------------------------------------- scoring
\* LLMScoringService._to_score_10: None when the value is missing
LlmToScore10(value) ==
    IF value = NULL THEN NULL
    ELSE LET numeric == Val(value)
             scaled == IF 0 <= numeric /\ numeric <= 100 THEN numeric * 10 ELSE numeric
         IN  Some(Max(0, Min(1000, scaled)))

\* LLMScoringService._sanitize: NULL, or the dict of rounded scores
Sanitize(data) ==
    LET communication == LlmToScore10(data.communication_score)
        content == LlmToScore10(data.content_score)
        relevance == LlmToScore10(data.relevance_score)
        confidence == LlmToScore10(data.confidence_score)
        given == LlmToScore10(data.final_score)
    IN  IF communication = NULL \/ content = NULL \/ relevance = NULL \/ confidence = NULL
        THEN NULL
        ELSE LET adjusted_content == 60 * Val(content) + 40 * Val(relevance)
                 final_score ==
                     IF given # NULL THEN Val(given)
                     ELSE RoundDiv(4500 * Val(communication) + 45 * adjusted_content
                                   + 1000 * Val(confidence), 10000)
             IN  Some([communication_score |-> communication,
                       content_score |-> content,
                       relevance_score |-> relevance,
                       confidence_score |-> confidence,
                       final_score |-> Some(final_score)])

\* ScoringService._to_score_10: the default when the value is missing
ToScore10(value, default) ==
    LET numeric == IF value = NULL THEN default ELSE Val(value)
        scaled == IF 0 <= numeric /\ numeric <= 100 THEN numeric * 10 ELSE numeric
    IN  Max(0, Min(1000, scaled))

\* ScoringService.score_answer on an LLM score dict
ScoreAnswer(llm_override) ==
    LET communication == ToScore10(llm_override.communication_score, 0)
        content_raw == ToScore10(llm_override.content_score, 0)
        relevance == ToScore10(llm_override.relevance_score, content_raw)
        confidence == ToScore10(llm_override.confidence_score, 0)
        blended == 60 * content_raw + 40 * relevance
        content == IF relevance <= 300 THEN Min(blended, 35000)
                   ELSE IF relevance <= 500 THEN Min(blended, 55000)
                   ELSE blended
        llm_final == llm_override.final_score
        final == IF llm_final = NULL
                 THEN RoundDiv(4500 * communication + 45 * content + 1000 * confidence, 10000)
                 ELSE LET f == ToScore10(llm_final, 0)
                      IN  IF relevance <= 300 THEN Min(f, 450)
                          ELSE IF relevance <= 500 THEN Min(f, 650)
                          ELSE f
    IN  [communication_score |-> communication,
         content_score |-> RoundDiv(content, 100),
         confidence_score |-> confidence,
         final_score |-> final]

\* evaluate_session, lines 67-84: the LLM's answer is sanitized by
\* LLMScoringService.evaluate and the sanitized dict is given to score_answer;
\* without a sanitized dict the call raises
ScoreResponse(data) ==
    IF Sanitize(data) = NULL
    THEN [raised |-> TRUE]
    ELSE [raised |-> FALSE,
          llm_scores |-> Val(Sanitize(data)),
          score |-> ScoreAnswer(Val(Sanitize(data)))]

\* Mutant: the upper bound of Good is inclusive.
ClassifyScoreInclusive(score) ==
    IF score <= 250 THEN "Below Average"
    ELSE IF score <= 500 THEN "Average"
    ELSE IF score <= 750 THEN "Good"
    ELSE "Excellent"

\* ScoringService.classify_score
ClassifyScore(score) ==
    IF score <= 250 THEN "Below Average"
    ELSE IF score <= 500 THEN "Average"
    ELSE IF score < 750 THEN "Good"
    ELSE "Excellent"

\* What the hosted model answers in this model: the spec's end-to-end answer
\* (8, 7, 7, 6), an off-topic answer, and an answer without a confidence score.
RawAnswer(cm, ct, rl, cf) ==
    [communication_score |-> cm, content_score |-> ct, relevance_score |-> rl,
     confidence_score |-> cf, final_score |-> NULL]

LLMRaw ==
    { RawAnswer(Some(800), Some(700), Some(700), Some(600)),
      RawAnswer(Some(900), Some(900), Some(200), Some(500)),
      RawAnswer(Some(800), Some(700), Some(700), NULL) }


\* LLMScoringService.evaluate as its caller sees it: a sanitized dict or None
\* (no client, every attempt failed, or nothing could be sanitized).
LLMResults == {NULL} \cup { Sanitize(data) : data \in LLMRaw }


\* ------------------------------------------------ TranscriptionService
\* A text is a sequence of tokens: words, and Whitespace for a run of
\* whitespace beyond the single separator of two words.  A sequence of words
\* is the string of the words joined by single spaces.
Whitespace == "  "
Words == {"a", "A", "b"}

\* str.lower() on the words
Lower(word) == IF word = "A" THEN "a" ELSE word

\* _normalize_whitespace: " ".join(text.split())
NormalizeWhitespace(text) == SelectSeq(text, LAMBDA token : token # Whitespace)

\* _collapse_repeated_ngrams, line 221: min(12, ...)
CollapseMaxN == 12

\* _collapse_repeated_ngrams, lines 236-237: the index after the further
\* repeats of segment from i on (indexes from 1)
RECURSIVE SkipRepeats(_, _, _, _)
SkipRepeats(words, n, i, segment) ==
    IF i + n - 1 <= Len(words) /\ SubSeq(words, i, i + n - 1) = segment
    THEN SkipRepeats(words, n, i + n, segment)
    ELSE i

\* _collapse_repeated_ngrams, lines 227-245: the scan of words for n-grams
\* that repeat at once, from index i on
RECURSIVE CollapseScan(_, _, _, _, _)
CollapseScan(words, n, i, compact, changed) ==
    IF i > Len(words) THEN [words |-> compact, changed |-> changed]
    ELSE IF /\ i + 2 * n - 1 <= Len(words)
            /\ SubSeq(words, i, i + n - 1) = SubSeq(words, i + n, i + 2 * n - 1)
    THEN CollapseScan(words, n,
                      SkipRepeats(words, n, i + n, SubSeq(words, i, i + n - 1)),
                      compact \o SubSeq(words, i, i + n - 1), TRUE)
    ELSE CollapseScan(words, n, i + 1, Append(compact, words[i]), changed)

\* lines 226-245: for n in range(max_n, 0, -1), from n down
RECURSIVE CollapseSweep(_, _, _)
CollapseSweep(words, n, changed) ==
    IF n = 0 THEN [words |-> words, changed |-> changed]
    ELSE LET scanned == CollapseScan(words, n, 1, <<>>, changed)
         IN  CollapseSweep(scanned.words, n - 1, scanned.changed)

\* lines 222-245: while changed, the sweep repeated until one changes nothing
RECURSIVE CollapseLoop(_, _)
CollapseLoop(words, max_n) ==
    LET swept == CollapseSweep(words, max_n, FALSE)
    IN  IF swept.changed THEN CollapseLoop(swept.words, max_n) ELSE swept.words

\* lines 247-251: a word equal to the one before it, letter case aside, is
\* dropped
RECURSIVE Dedupe(_, _)
Dedupe(words, deduped) ==
    IF words = <<>> THEN deduped
    ELSE IF deduped # <<>> /\ Lower(deduped[Len(deduped)]) = Lower(Head(words))
    THEN Dedupe(Tail(words), deduped)
    ELSE Dedupe(Tail(words), Append(deduped, Head(words)))

\* TranscriptionService._collapse_repeated_ngrams
CollapseRepeatedNgrams(words) ==
    IF Len(words) < 2 THEN words
    ELSE Dedupe(CollapseLoop(words, Min(CollapseMaxN, Len(words) \div 2)), <<>>)

\* TranscriptionService.clean_text
CleanText(text) ==
    IF NormalizeWhitespace(text) = <<>> THEN <<>>
    ELSE NormalizeWhitespace(CollapseRepeatedNgrams(NormalizeWhitespace(text)))

\* ------------------------------------------------ LLMScoringService.evaluate
\* retry_delays, in hundredths of a second
RetryDelays == <<0, 100, 250>>

\* What a request to the hosted model ends as: create raises, the message has
\* no content, the content is not JSON, or it is the JSON object data.
LlmResponse(kind, data) == [kind |-> kind, data |-> data]

LlmResponses ==
    { LlmResponse(kind, RawAnswer(NULL, NULL, NULL, NULL)) :
        kind \in {"exception", "empty", "unparsable"} }
    \cup { LlmResponse("json", data) : data \in LLMRaw }

\* evaluate, lines 64-91: the attempts from the idx-th on; responses[i] is what
\* the i-th request ends as if it is made
RECURSIVE EvaluateAttempts(_, _)
EvaluateAttempts(responses, idx) ==
    IF idx > Len(RetryDelays)
    THEN [raised |-> FALSE, value |-> NULL, requests |-> Len(RetryDelays)]
    ELSE LET response == responses[idx]
             sanitized == Sanitize(response.data)
         IN  IF response.kind \in {"exception", "unparsable"}
             THEN IF idx >= Len(RetryDelays)
                  THEN [raised |-> TRUE, value |-> NULL, requests |-> idx]
                  ELSE EvaluateAttempts(responses, idx + 1)
             ELSE IF response.kind = "json" /\ sanitized # NULL
             THEN [raised |-> FALSE, value |-> sanitized, requests |-> idx]
             ELSE EvaluateAttempts(responses, idx + 1)

\* Mutant: without the outer try, the exception of the last attempt gets out.
LlmEvaluateUncaught(client, responses) ==
    IF ~client THEN [raised |-> FALSE, value |-> NULL, requests |-> 0]
    ELSE EvaluateAttempts(responses, 1)

\* LLMScoringService.evaluate: None without a client; the outer try turns the
\* exception of the last attempt into None
LlmEvaluate(client, responses) ==
    IF ~client THEN [raised |-> FALSE, value |-> NULL, requests |-> 0]
    ELSE [EvaluateAttempts(responses, 1) EXCEPT !.raised = FALSE]

\* ------------------------------------------------------ question selection
\* random.sample(pool, k): k elements of pool at distinct positions, in any
\* order
Samples(pool, k) ==
    { [i \in 1..k |-> pool[f[i]]] :
        f \in { g \in [1..k -> DOMAIN pool] :
                  \A a, b \in 1..k : a # b => g[a] # g[b] } }

\* select_questions, lines 43-44: the questions whose id is in fixed_ids,
\* sorted by the first index of their id in fixed_ids
RECURSIVE InOrderOf(_, _)
InOrderOf(fixed_ids, questions) ==
    IF fixed_ids = <<>> THEN <<>>
    ELSE SelectSeq(questions, LAMBDA q : q.id = Head(fixed_ids))
         \o InOrderOf(SelectSeq(Tail(fixed_ids), LAMBDA x : x # Head(fixed_ids)),
                      questions)

\* select_questions, lines 33-48: the lists `selected` can be
Selections(payload, mode, count) ==
    LET questions == payload.questions
    IN  IF mode = "mixed"
        THEN LET always_ids == payload.always_include_ids
                 always == SelectSeq(questions, LAMBDA q : q.id \in always_ids)
                 pool == SelectSeq(questions, LAMBDA q : q.id \notin always_ids)
                 needed_random == Max(count - Len(always), 0)
             IN  { always \o random_selected :
                   random_selected \in Samples(pool, Min(needed_random, Len(pool))) }
        ELSE IF payload.fixed_question_ids # <<>>
        THEN { InOrderOf(payload.fixed_question_ids, questions) }
        ELSE LET fixed == SelectSeq(questions, LAMBDA q : q.type = "fixed")
             IN  { IF fixed # <<>> THEN fixed ELSE questions }

\* Mutant: the selected list is returned whole.
SelectQuestionsUntruncated(payload, mode, count) ==
    IF payload.questions = <<>>
    THEN { [raised |-> "No questions configured", questions |-> <<>>] }
    ELSE { IF Len(selected) < count
           THEN [raised |-> "Insufficient question count", questions |-> <<>>]
           ELSE [raised |-> "", questions |-> selected] :
           selected \in Selections(payload, mode, count) }

\* QuestionService.select_questions for the effective mode and count: what
\* the call can raise or return
SelectQuestions(payload, mode, count) ==
    IF payload.questions = <<>>
    THEN { [raised |-> "No questions configured", questions |-> <<>>] }
    ELSE { IF Len(selected) < count
           THEN [raised |-> "Insufficient question count", questions |-> <<>>]
           ELSE [raised |-> "", questions |-> SubSeq(selected, 1, count)] :
           selected \in Selections(payload, mode, count) }

\* ------------------------------------------------------------------ state
VARIABLES
    users,                \* table users: email -> row
    candidate_sessions,   \* table candidate_sessions: id -> row
    issued,               \* number of session ids uuid4 has handed out
    candidate_responses,  \* table candidate_responses: set of rows
    scores,               \* table scores: session id -> row
    evaluation_inflight,  \* _evaluation_inflight
    threads,              \* session id -> the session-eval threads started for it
    manual_evals,         \* admin_evaluate_session requests in progress
    pending_uploads,      \* uploads suspended in store_media: (session, question) -> count
    upload_returned,      \* (session, question) -> the response ids the endpoint
                          \* answered with, in order (the first MaxRecorded)
    delete_returned,      \* session -> what the admin delete answered
    mirror_enabled,       \* MysqlSyncService.enabled
    mirror_last,          \* what became of the last access of the mirror database
    fn_call,               \* a call of one of the services' functions: its arguments
    fn_result             \* and what it returned

vars == <<users, candidate_sessions, issued, candidate_responses, scores,
          evaluation_inflight, threads, manual_evals, pending_uploads, upload_returned,
          delete_returned, mirror_enabled, mirror_last, fn_call, fn_result>>

Pairs == SessionIds \X Questions

\* models.User, as far as the handlers read it
NoUser == [present |-> FALSE, candidate_id |-> NULL]
\* models.CandidateSession
NoSession == [present |-> FALSE, candidate_id |-> "", status |-> "", status_label |-> ""]
\* models.Score
NoScore ==
    [present |-> FALSE, ai_total_score |-> NULL,
     evaluator_communication_score |-> NULL, evaluator_content_score |-> NULL,
     evaluator_confidence_score |-> NULL, evaluator_total_score |-> NULL]

\* The local state of one evaluate_session call: the ORM's copy of the session
\* status, response_map, the position in the question loop and the totals.
NoEvaluation ==
    [loaded_status |-> "", loaded_label |-> "", response_map |-> {}, idx |-> 0,
     communication_total |-> 0, content_total |-> 0, confidence_total |-> 0,
     evaluated_count |-> 0]

\* A fresh session-eval thread, about to make its first attempt.
NewThread ==
    [pc |-> "attempt", attempt |-> 0, calls |-> 0, succeeded |-> FALSE,
     evaluation |-> NoEvaluation]

\* The tables and the router's module state when the process has started.
StoreInit ==
    /\ users = [e \in Emails |->
                  IF e = "old@" THEN [present |-> TRUE, candidate_id |-> Some(e)]
                  ELSE NoUser]
    /\ candidate_sessions = [s \in SessionIds |-> NoSession]
    /\ issued = 0
    /\ candidate_responses = {}
    /\ scores = [s \in SessionIds |-> NoScore]
    /\ evaluation_inflight = {}
    /\ threads = [s \in SessionIds |-> <<>>]
    /\ manual_evals = <<>>
    /\ pending_uploads = [p \in Pairs |-> 0]
    /\ upload_returned = [p \in Pairs |-> <<>>]
    /\ delete_returned = [s \in SessionIds |-> "none"]

\* No function call is under way.
NoCall == [function |-> "none"]

\* A process without a mirror target (the primary database is the MySQL
\* database, or no target is configured): MysqlSyncService.__init__ leaves
\* enabled False.
Init ==
    /\ StoreInit
    /\ mirror_enabled = FALSE
    /\ mirror_last = "none"
    /\ fn_call = NoCall
    /\ fn_result = NoCall

\* ----------------------------------------------------------- table helpers
ResponsesOf(responses, s) == { r \in responses : r.session_id = s }

ExistingResponse(responses, s, q) ==
    { r \in responses : r.session_id = s /\ r.question_id = q }

\* Mutant: the handler's select of the existing response finds nothing.
UploadLookupNothing(responses, s, q) == {}

\* upload_candidate_response, lines 288-293: existing
UploadLookup(responses, s, q) == ExistingResponse(responses, s, q)

\* SessionQuestion rows of a session: start_candidate_session adds one per
\* selected question, the admin delete removes them with the session.
SessionQuestions(sessions, s) == IF sessions[s].present THEN Questions ELSE {}

\* the autoincrement primary key of a new candidate_responses row
NextResponseId(responses) ==
    IF responses = {} THEN 1 ELSE SetMax({ r.id : r \in responses }) + 1

\* _session_upload_counts
SessionUploadCounts(sessions, responses, s) ==
    [total_questions |-> Cardinality(SessionQuestions(sessions, s)),
     uploaded_count |-> Cardinality({ r.question_id : r \in ResponsesOf(responses, s) })]

\* What a commit writes to a column: the assigned value when it differs from
\* the value the unit of work loaded, otherwise nothing.
Flush(stored, loaded, assigned) == IF assigned = loaded THEN stored ELSE assigned

\* The client of (s, q) receives response_id.
Answered(returned, s, q, response_id) ==
    IF Len(returned[<<s, q>>]) < MaxRecorded
    THEN [returned EXCEPT ![<<s, q>>] = Append(@, response_id)]
    ELSE returned

SeqRemove(seq, i) == SubSeq(seq, 1, i - 1) \o SubSeq(seq, i + 1, Len(seq))

\* ------------------------------------------------------- the MySQL mirror
\* What the mirror database does to a call that reaches it: every statement
\* succeeds; the database cannot be reached when the call starts; the
\* connection is lost once the call's first statements have succeeded.
MirrorOutcomes == {"ok", "connect_error", "connection_lost"}

\* MysqlSyncService.sync_session: nothing when disabled; _ensure_target_schema
\* is the first access and its failure reaches the outer handler, which
\* disables the service; a failure inside the transaction is rolled back and
\* logged by the inner handler.  Nothing is raised to the caller.
SyncSession(enabled, last, outcome) ==
    IF ~enabled
    THEN [enabled |-> FALSE, last |-> last, raised |-> FALSE]
    ELSE [enabled |-> outcome # "connect_error",
          last |-> outcome,
          raised |-> FALSE]

\* Mutant: delete_session lets the failure of the mirror out.
DeleteSessionUncaught(enabled, last, outcome) ==
    IF ~enabled
    THEN [enabled |-> FALSE, last |-> last, raised |-> FALSE]
    ELSE [enabled |-> TRUE,
          last |-> outcome,
          raised |-> outcome # "ok"]

\* MysqlSyncService.delete_session: nothing when disabled; every access is
\* inside the transaction, whose failure is rolled back and logged by the
\* inner handler.  Nothing is raised to the caller.
DeleteSession(enabled, last, outcome) ==
    IF ~enabled
    THEN [enabled |-> FALSE, last |-> last, raised |-> FALSE]
    ELSE [enabled |-> TRUE,
          last |-> outcome,
          raised |-> FALSE]

\* ------------------------------------------------------------- scheduling
\* Mutant: the in-flight check is missing and every call starts a thread.
EnqueueWithoutInflightCheck(inflight, thr, s) ==
    [inflight |-> inflight \cup {s},
     threads |-> [thr EXCEPT ![s] = Append(@, NewThread)]]

\* _enqueue_session_evaluation: the new in-flight set and the session's threads
EnqueueSessionEvaluation(inflight, thr, s) ==
    IF s \in inflight
    THEN [inflight |-> inflight, threads |-> thr]
    ELSE [inflight |-> inflight \cup {s},
          threads |-> [thr EXCEPT ![s] = Append(@, NewThread)]]

\* Mutant: the upload counts are not compared; any upload schedules.
ScheduleWithoutCountCheck(sessions, responses, score_rows, inflight, thr, s) ==
    LET score_row == score_rows[s]
    IN  IF /\ sessions[s].status = "completed"
           /\ score_row.present
           /\ score_row.ai_total_score # NULL
        THEN [sessions |-> sessions, inflight |-> inflight, threads |-> thr]
        ELSE LET q == EnqueueSessionEvaluation(inflight, thr, s)
             IN  [sessions |-> [sessions EXCEPT ![s].status = "submitted"],
                  inflight |-> q.inflight,
                  threads |-> q.threads]

\* _schedule_session_evaluation_if_ready, for a session row read in this step
ScheduleSessionEvaluationIfReady(sessions, responses, score_rows, inflight, thr, s) ==
    LET counts == SessionUploadCounts(sessions, responses, s)
        score_row == score_rows[s]
        unchanged == [sessions |-> sessions, inflight |-> inflight, threads |-> thr]
    IN  IF counts.total_questions <= 0 \/ counts.uploaded_count < counts.total_questions
        THEN unchanged
        ELSE IF /\ sessions[s].status = "completed"
                /\ score_row.present
                /\ score_row.ai_total_score # NULL
        THEN unchanged
        ELSE LET q == EnqueueSessionEvaluation(inflight, thr, s)
             IN  [sessions |-> [sessions EXCEPT ![s].status = "submitted"],
                  inflight |-> q.inflight,
                  threads |-> q.threads]

\* ------------------------------------------------------ candidate requests
\* auth0_callback: the first sign-in of an email creates its user row
Auth0Callback(e) ==
    /\ ~users[e].present
    /\ users' = [users EXCEPT ![e] = [present |-> TRUE, candidate_id |-> NULL]]
    /\ UNCHANGED <<candidate_sessions, issued, candidate_responses, scores,
                   evaluation_inflight, threads, manual_evals, pending_uploads,
                   upload_returned, mirror_enabled, mirror_last,
                   delete_returned, fn_call, fn_result>>

\* start_candidate_session
StartCandidateSession(e) ==
    /\ users[e].present
    /\ issued < MaxSessions
    /\ LET session_id == issued + 1
           candidate_id == IF users[e].candidate_id # NULL
                           THEN Val(users[e].candidate_id) ELSE e
       IN  /\ issued' = session_id
           /\ candidate_sessions' =
                  [candidate_sessions EXCEPT ![session_id] =
                      [present |-> TRUE, candidate_id |-> candidate_id,
                       status |-> "in_progress", status_label |-> ""]]
    /\ UNCHANGED <<users, candidate_responses, scores, evaluation_inflight, threads,
                   manual_evals, pending_uploads, upload_returned, mirror_enabled, mirror_last,
                   delete_returned, fn_call, fn_result>>

\* Mutant: the access check lets every signed-in user pass.
EnsureSessionAccessOpen(session, email) == TRUE

\* _ensure_session_access: the check passes; otherwise it raises 403
EnsureSessionAccess(session, email) == session.candidate_id = email

PendingTotal == LET RECURSIVE Sum(_)
                    Sum(S) == IF S = {} THEN 0
                              ELSE LET p == CHOOSE x \in S : TRUE
                                   IN  pending_uploads[p] + Sum(S \ {p})
                IN  Sum(Pairs)

\* upload_candidate_response up to its await: the pair already has a response
\* and the handler answers with it
UploadExisting(e, s, q) ==
    /\ candidate_sessions[s].present
    /\ EnsureSessionAccess(candidate_sessions[s], e)
    /\ q \in SessionQuestions(candidate_sessions, s)
    /\ UploadLookup(candidate_responses, s, q) # {}
    /\ LET existing == CHOOSE r \in UploadLookup(candidate_responses, s, q) : TRUE
           after == ScheduleSessionEvaluationIfReady(candidate_sessions,
                        candidate_responses, scores, evaluation_inflight, threads, s)
       IN  /\ candidate_sessions' = after.sessions
           /\ evaluation_inflight' = after.inflight
           /\ threads' = after.threads
           /\ upload_returned' = Answered(upload_returned, s, q, existing.id)
    /\ UNCHANGED <<users, issued, candidate_responses, scores, manual_evals,
                   pending_uploads, mirror_enabled, mirror_last,
                   delete_returned, fn_call, fn_result>>

\* upload_candidate_response up to its await: no response yet, the handler
\* suspends in store_media
UploadBegin(e, s, q) ==
    /\ candidate_sessions[s].present
    /\ EnsureSessionAccess(candidate_sessions[s], e)
    /\ q \in SessionQuestions(candidate_sessions, s)
    /\ UploadLookup(candidate_responses, s, q) = {}
    /\ PendingTotal < MaxPendingUploads
    /\ pending_uploads' = [pending_uploads EXCEPT ![<<s, q>>] = @ + 1]
    /\ UNCHANGED <<users, candidate_sessions, issued, candidate_responses, scores,
                   evaluation_inflight, threads, manual_evals, upload_returned, mirror_enabled, mirror_last,
                   delete_returned, fn_call, fn_result>>

\* Mutant: the table has no uq_response_question.
InsertWithoutUniqueConstraint(responses, s, q) ==
    responses \cup
      {[id |-> NextResponseId(responses), session_id |-> s, question_id |-> q]}

\* The INSERT of the new candidate_responses row at commit: uq_response_question
\* rejects a second row of the pair (IntegrityError, nothing is written).
InsertResponse(responses, s, q) ==
    IF \E r \in responses : r.session_id = s /\ r.question_id = q
    THEN responses
    ELSE responses \cup
           {[id |-> NextResponseId(responses), session_id |-> s, question_id |-> q]}

\* upload_candidate_response after its await: insert, commit, schedule.
\* fk_enforced: whether the database enforces the foreign key of session_id
\* (MySQL does, SQLite without the foreign_keys pragma does not).
UploadFinish(s, q, fk_enforced) ==
    /\ pending_uploads[<<s, q>>] > 0
    /\ pending_uploads' = [pending_uploads EXCEPT ![<<s, q>>] = @ - 1]
    /\ LET inserted == InsertResponse(candidate_responses, s, q)
       IN  IF ~candidate_sessions[s].present
           THEN \* the session was deleted meanwhile: the insert fails on the
                \* foreign key, or leaves a row and the refresh of the expired
                \* session raises
                /\ candidate_responses' =
                       IF fk_enforced THEN candidate_responses ELSE inserted
                /\ UNCHANGED <<candidate_sessions, evaluation_inflight, threads,
                               upload_returned>>
           ELSE IF inserted = candidate_responses
           THEN \* IntegrityError: the request fails
                UNCHANGED <<candidate_responses, candidate_sessions,
                            evaluation_inflight, threads, upload_returned>>
           ELSE LET response == CHOOSE r \in inserted \ candidate_responses : TRUE
                    after == ScheduleSessionEvaluationIfReady(candidate_sessions,
                                 inserted, scores, evaluation_inflight, threads, s)
                IN  /\ candidate_responses' = inserted
                    /\ candidate_sessions' = after.sessions
                    /\ evaluation_inflight' = after.inflight
                    /\ threads' = after.threads
                    /\ upload_returned' = Answered(upload_returned, s, q, response.id)
    /\ UNCHANGED <<users, issued, scores, manual_evals, mirror_enabled, mirror_last,
                   delete_returned, fn_call, fn_result>>


\* The answer of a request: its HTTP status and body with the tables, the
\* in-flight set and the threads it leaves.
RequestAnswer(status, body, sessions, responses, inflight, thr) ==
    [status |-> status, body |-> body, sessions |-> sessions,
     responses |-> responses, inflight |-> inflight, threads |-> thr]

\* upload_candidate_response as one request whose store_media is not
\* interleaved with another request
UploadCandidateResponse(sessions, responses, score_rows, inflight, thr, email, s, q) ==
    IF ~sessions[s].present
    THEN RequestAnswer(404, "Session not found", sessions, responses, inflight, thr)
    ELSE IF ~EnsureSessionAccess(sessions[s], email)
    THEN RequestAnswer(403, "Not authorized to access this session.",
                       sessions, responses, inflight, thr)
    ELSE IF q \notin SessionQuestions(sessions, s)
    THEN RequestAnswer(404, "Question not found for session",
                       sessions, responses, inflight, thr)
    ELSE IF UploadLookup(responses, s, q) # {}
    THEN LET after == ScheduleSessionEvaluationIfReady(sessions, responses, score_rows,
                                                       inflight, thr, s)
         IN  RequestAnswer(200,
                           [response_id |->
                               (CHOOSE r \in UploadLookup(responses, s, q) : TRUE).id],
                           after.sessions, responses, after.inflight, after.threads)
    ELSE LET inserted == InsertResponse(responses, s, q)
             after == ScheduleSessionEvaluationIfReady(sessions, inserted, score_rows,
                                                       inflight, thr, s)
         IN  RequestAnswer(200, [response_id |-> NextResponseId(responses)],
                           after.sessions, inserted, after.inflight, after.threads)

\* get_question_upload_status
GetQuestionUploadStatus(sessions, responses, inflight, thr, email, s, q) ==
    IF ~sessions[s].present
    THEN RequestAnswer(404, "Session not found", sessions, responses, inflight, thr)
    ELSE IF ~EnsureSessionAccess(sessions[s], email)
    THEN RequestAnswer(403, "Not authorized to access this session.",
                       sessions, responses, inflight, thr)
    ELSE RequestAnswer(200, [uploaded |-> ExistingResponse(responses, s, q) # {}],
                       sessions, responses, inflight, thr)

\* get_session
GetSession(sessions, responses, inflight, thr, email, s) ==
    IF ~sessions[s].present
    THEN RequestAnswer(404, "Session not found", sessions, responses, inflight, thr)
    ELSE IF ~EnsureSessionAccess(sessions[s], email)
    THEN RequestAnswer(403, "Not authorized to access this session.",
                       sessions, responses, inflight, thr)
    ELSE RequestAnswer(200,
                       [status |-> sessions[s].status,
                        total_questions |-> Cardinality(SessionQuestions(sessions, s)),
                        completed_answers |->
                            Cardinality({ r.question_id : r \in ResponsesOf(responses, s) })],
                       sessions, responses, inflight, thr)

\* ------------------------------------------------------- evaluate_session
\* The next question of the loop that has a response (the loop passes the
\* others without a call), NumQuestions + 1 when none is left.
NextAnswered(response_map, from) ==
    LET rest == { q \in response_map : q >= from }
    IN  IF rest = {} THEN NumQuestions + 1
        ELSE CHOOSE q \in rest : \A x \in rest : q <= x

\* evaluate_session, lines 27-45: the session, its questions and responses
EvaluationLoad(sessions, responses, s) ==
    LET response_map == { r.question_id : r \in ResponsesOf(responses, s) }
                            \cap SessionQuestions(sessions, s)
    IN  [loaded_status |-> sessions[s].status,
         loaded_label |-> sessions[s].status_label,
         response_map |-> response_map,
         idx |-> NextAnswered(response_map, 1),
         communication_total |-> 0, content_total |-> 0, confidence_total |-> 0,
         evaluated_count |-> 0]

\* evaluate_session, lines 79-100: one scored response added to the totals
EvaluationAccumulate(ev, llm_scores) ==
    LET score == ScoreAnswer(llm_scores)
    IN  [ev EXCEPT !.communication_total = @ + score.communication_score,
                   !.content_total = @ + score.content_score,
                   !.confidence_total = @ + score.confidence_score,
                   !.evaluated_count = @ + 1,
                   !.idx = NextAnswered(ev.response_map, ev.idx + 1)]

\* Mutant: a response without LLM scores is passed over instead of raising.
QuestionOutcomeSkipping(ev, llm_scores) ==
    IF llm_scores = NULL
    THEN [raised |-> FALSE,
          evaluation |-> [ev EXCEPT !.idx = NextAnswered(ev.response_map, ev.idx + 1)]]
    ELSE [raised |-> FALSE, evaluation |-> EvaluationAccumulate(ev, Val(llm_scores))]

\* evaluate_session, lines 67-100: without LLM scores the call raises, with
\* them the response is scored and the loop goes on
QuestionOutcome(ev, llm_scores) ==
    IF llm_scores = NULL
    THEN [raised |-> TRUE, evaluation |-> ev]
    ELSE [raised |-> FALSE, evaluation |-> EvaluationAccumulate(ev, Val(llm_scores))]

\* Mutant: the weighted total is divided by the number of questions.
FinalScorePerQuestion(ev) ==
    RoundDiv(45 * ev.communication_total + 45 * ev.content_total
             + 10 * ev.confidence_total, 100 * NumQuestions)

\* evaluate_session, lines 105-111: final_score
FinalScore(ev) ==
    RoundDiv(45 * ev.communication_total + 45 * ev.content_total
             + 10 * ev.confidence_total, 100 * ev.evaluated_count)

\* Mutant: the upsert stores a fresh row, the evaluator's scores are lost.
ScoreUpsertFresh(usrs, score_row, candidate_id, final_score) ==
    IF \E e \in Emails : usrs[e].present /\ usrs[e].candidate_id = Some(candidate_id)
    THEN [NoScore EXCEPT !.present = TRUE, !.ai_total_score = Some(final_score)]
    ELSE score_row

\* evaluate_session, lines 122-148: the Score row after the upsert, which is
\* skipped when no user row has the session's candidate_id as its candidate_id
ScoreUpsert(usrs, score_row, candidate_id, final_score) ==
    IF \E e \in Emails : usrs[e].present /\ usrs[e].candidate_id = Some(candidate_id)
    THEN [score_row EXCEPT !.present = TRUE, !.ai_total_score = Some(final_score)]
    ELSE score_row

\* Mutant: the commit does not notice that the session row is gone.
EvaluationPersistUnchecked(sessions, score_rows, usrs, s, ev) ==
    IF ev.evaluated_count = 0
    THEN [raised |-> TRUE, returned |-> FALSE, evaluation |-> ev,
          sessions |-> sessions, scores |-> score_rows]
    ELSE [raised |-> FALSE, returned |-> TRUE, evaluation |-> ev,
          sessions |-> [sessions EXCEPT ![s].status = "completed"],
          scores |-> [score_rows EXCEPT ![s] =
              [@ EXCEPT !.present = TRUE, !.ai_total_score = Some(FinalScore(ev))]]]

\* evaluate_session, lines 102-150: the call raises (nothing scored, or the
\* UPDATE of a session row that is gone) and nothing is written, or it
\* commits the session and the Score row and returns
EvaluationPersist(sessions, score_rows, usrs, s, ev) ==
    IF ev.evaluated_count = 0 \/ ~sessions[s].present
    THEN [raised |-> TRUE, returned |-> FALSE, evaluation |-> ev,
          sessions |-> sessions, scores |-> score_rows]
    ELSE LET final_score == FinalScore(ev)
             row == sessions[s]
         IN  [raised |-> FALSE, returned |-> TRUE, evaluation |-> ev,
              sessions |-> [sessions EXCEPT ![s] =
                  [row EXCEPT !.status = Flush(row.status, ev.loaded_status, "completed"),
                              !.status_label = Flush(row.status_label, ev.loaded_label,
                                                     ClassifyScore(final_score))]],
              scores |-> [score_rows EXCEPT ![s] =
                  ScoreUpsert(usrs, score_rows[s], row.candidate_id, final_score)]]

\* evaluate_session after the outcome of a round: raised, at its next
\* response (neither raised nor returned), or through lines 102-150
EvaluationAfterRound(sessions, score_rows, usrs, s, outcome) ==
    IF outcome.raised \/ outcome.evaluation.idx <= NumQuestions
    THEN [raised |-> outcome.raised, returned |-> FALSE,
          evaluation |-> outcome.evaluation,
          sessions |-> sessions, scores |-> score_rows]
    ELSE EvaluationPersist(sessions, score_rows, usrs, s, outcome.evaluation)

\* evaluate_session from one LLM answer to the next call or to its end
EvaluationRound(sessions, score_rows, usrs, s, ev, llm_scores) ==
    EvaluationAfterRound(sessions, score_rows, usrs, s, QuestionOutcome(ev, llm_scores))

\* evaluate_session from the first response to the return or the raise, for
\* the LLM results llm (question -> result) of the session's responses
RECURSIVE EvaluationRounds(_, _, _, _, _, _)
EvaluationRounds(sessions, score_rows, usrs, s, ev, llm) ==
    LET round == EvaluationRound(sessions, score_rows, usrs, s, ev, llm[ev.idx])
    IN  IF round.raised \/ round.returned THEN round
        ELSE EvaluationRounds(sessions, score_rows, usrs, s, round.evaluation, llm)

\* evaluate_session as one call
EvaluateSession(sessions, responses, score_rows, usrs, s, llm) ==
    LET ev == EvaluationLoad(sessions, responses, s)
    IN  IF ~sessions[s].present \/ ev.idx > NumQuestions
        THEN [raised |-> TRUE, returned |-> FALSE, evaluation |-> ev,
              sessions |-> sessions, scores |-> score_rows]
        ELSE EvaluationRounds(sessions, score_rows, usrs, s, ev, llm)

\* ------------------------------------------- _evaluate_session_background
\* Mutant: the handler does not spare a completed session.
StatusAfterFailureUnguarded(sessions, s, loaded_status) ==
    IF sessions[s].present
    THEN [sessions EXCEPT ![s].status = "submitted"]
    ELSE sessions

\* The except branch, lines 68-83: the session is read again through the ORM
\* session of the attempt, so its status is still the one loaded.
StatusAfterFailure(sessions, s, loaded_status) ==
    IF sessions[s].present /\ loaded_status # "completed"
    THEN [sessions EXCEPT ![s].status = Flush(@, loaded_status, "submitted")]
    ELSE sessions

\* The thread after a failed attempt: the next attempt, or the end of the loop.
ThreadAfterFailure(thread) ==
    IF thread.attempt + 1 < RetryCount
    THEN [thread EXCEPT !.pc = "attempt", !.attempt = @ + 1, !.evaluation = NoEvaluation]
    ELSE [thread EXCEPT !.pc = "exit", !.evaluation = NoEvaluation]

\* Mutant: the return is missing and the loop goes on after a success.
ThreadWithoutReturn(thread) ==
    IF thread.attempt + 1 < RetryCount
    THEN [thread EXCEPT !.pc = "attempt", !.attempt = @ + 1, !.succeeded = TRUE]
    ELSE [thread EXCEPT !.pc = "exit", !.succeeded = TRUE]

\* The thread after evaluate_session returned: return leaves the loop.
ThreadAfterSuccess(thread) ==
    [thread EXCEPT !.pc = "exit", !.succeeded = TRUE]

\* One attempt starts: the delay, a new ORM session, the loads of
\* evaluate_session, up to the first round of the question loop.
ThreadAttempt(s, i) ==
    /\ i \in DOMAIN threads[s]
    /\ threads[s][i].pc = "attempt"
    /\ LET thread == [threads[s][i] EXCEPT !.calls = @ + 1]
           ev == EvaluationLoad(candidate_sessions, candidate_responses, s)
       IN  IF candidate_sessions[s].present /\ ev.idx <= NumQuestions
           THEN /\ threads' = [threads EXCEPT ![s][i] =
                        [thread EXCEPT !.pc = "questions", !.evaluation = ev]]
                /\ UNCHANGED candidate_sessions
           ELSE \* ValueError: "Session not found" (the handler finds no row
                \* either) or "No responses available for evaluation"
                /\ threads' = [threads EXCEPT ![s][i] = ThreadAfterFailure(thread)]
                /\ candidate_sessions' = StatusAfterFailure(candidate_sessions, s,
                                             ev.loaded_status)
    /\ UNCHANGED <<users, issued, candidate_responses, scores, evaluation_inflight,
                   manual_evals, pending_uploads, upload_returned, mirror_enabled, mirror_last,
                   delete_returned, fn_call, fn_result>>

\* One round of the question loop: transcription, video analysis, the LLM,
\* and the scoring of the response; after the last response the aggregate,
\* the writes of the session and the Score row, and the commit.
ThreadQuestion(s, i, llm_scores) ==
    /\ i \in DOMAIN threads[s]
    /\ threads[s][i].pc = "questions"
    /\ \E outcome \in {EvaluationRound(candidate_sessions, scores, users, s,
                                        threads[s][i].evaluation, llm_scores)} :
           /\ candidate_sessions' =
                  IF outcome.raised
                  THEN StatusAfterFailure(candidate_sessions, s,
                                          threads[s][i].evaluation.loaded_status)
                  ELSE outcome.sessions
           /\ scores' = outcome.scores
           /\ threads' = [threads EXCEPT ![s][i] =
                  IF outcome.raised THEN ThreadAfterFailure(@)
                  ELSE IF outcome.returned THEN ThreadAfterSuccess(@)
                  ELSE [@ EXCEPT !.evaluation = outcome.evaluation]]
           /\ \E mirror_outcome \in MirrorOutcomes :
                  \E mirror \in {IF outcome.returned
                                 THEN SyncSession(mirror_enabled, mirror_last,
                                                  mirror_outcome)
                                 ELSE [enabled |-> mirror_enabled,
                                       last |-> mirror_last, raised |-> FALSE]} :
                      /\ mirror_enabled' = mirror.enabled
                      /\ mirror_last' = mirror.last
    /\ UNCHANGED <<users, issued, candidate_responses, evaluation_inflight,
                   manual_evals, pending_uploads, upload_returned, delete_returned, fn_call, fn_result>>

\* Mutant: the runner has no finally, the id stays in the in-flight set.
ThreadExitKeepingInflight(s, i) ==
    /\ i \in DOMAIN threads[s]
    /\ threads[s][i].pc = "exit"
    /\ threads' = [threads EXCEPT ![s] = SeqRemove(@, i)]
    /\ UNCHANGED <<users, candidate_sessions, issued, candidate_responses, scores,
                   evaluation_inflight, manual_evals, pending_uploads, upload_returned,
                   mirror_enabled, mirror_last, delete_returned, fn_call, fn_result>>

\* _runner's finally: the id leaves the in-flight set and the thread ends.
ThreadExit(s, i) ==
    /\ i \in DOMAIN threads[s]
    /\ threads[s][i].pc = "exit"
    /\ evaluation_inflight' = evaluation_inflight \ {s}
    /\ threads' = [threads EXCEPT ![s] = SeqRemove(@, i)]
    /\ UNCHANGED <<users, candidate_sessions, issued, candidate_responses, scores,
                   manual_evals, pending_uploads, upload_returned, mirror_enabled, mirror_last,
                   delete_returned, fn_call, fn_result>>


\* --------------------------------------------------------- admin requests
\* admin_evaluate_session: evaluate_session in the request's own thread, up
\* to the first round of the question loop; without a response the request
\* fails at once (400) and nothing has changed
AdminEvaluateBegin(s) ==
    /\ Len(manual_evals) < MaxManualEvals
    /\ candidate_sessions[s].present
    /\ LET ev == EvaluationLoad(candidate_sessions, candidate_responses, s)
       IN  manual_evals' = IF ev.idx <= NumQuestions
                           THEN Append(manual_evals, [session_id |-> s, evaluation |-> ev])
                           ELSE manual_evals
    /\ UNCHANGED <<users, candidate_sessions, issued, candidate_responses, scores,
                   evaluation_inflight, threads, pending_uploads, upload_returned, mirror_enabled, mirror_last,
                   delete_returned, fn_call, fn_result>>

\* One round of the question loop; the request ends when the call raises
\* (400) or returns.
AdminEvaluateQuestion(i, llm_scores) ==
    /\ i \in DOMAIN manual_evals
    /\ \E outcome \in {EvaluationRound(candidate_sessions, scores, users,
                                        manual_evals[i].session_id,
                                        manual_evals[i].evaluation, llm_scores)} :
           /\ candidate_sessions' = outcome.sessions
           /\ scores' = outcome.scores
           /\ manual_evals' =
                  IF outcome.raised \/ outcome.returned THEN SeqRemove(manual_evals, i)
                  ELSE [manual_evals EXCEPT ![i].evaluation = outcome.evaluation]
           /\ \E mirror_outcome \in MirrorOutcomes :
                  \E mirror \in {IF outcome.returned
                                 THEN SyncSession(mirror_enabled, mirror_last,
                                                  mirror_outcome)
                                 ELSE [enabled |-> mirror_enabled,
                                       last |-> mirror_last, raised |-> FALSE]} :
                      /\ mirror_enabled' = mirror.enabled
                      /\ mirror_last' = mirror.last
    /\ UNCHANGED <<users, issued, candidate_responses, evaluation_inflight, threads,
                   pending_uploads, upload_returned, delete_returned, fn_call, fn_result>>

\* list_admin_results, line 457: .limit(20)
PendingLimit == 20

\* Mutant: an inner join, which drops the sessions without a Score row.
PendingSessionIdsInnerJoin(sessions, score_rows) ==
    LET pending == { s \in DOMAIN sessions :
                       /\ sessions[s].present
                       /\ sessions[s].status \in {"submitted", "completed"}
                       /\ score_rows[s].present
                       /\ score_rows[s].ai_total_score = NULL }
    IN  { s \in pending : Cardinality({ x \in pending : x > s }) < PendingLimit }

\* The sessions list_admin_results finds pending: submitted or completed, and
\* no Score row or a Score row without ai_total_score (the outer join); of
\* these the PendingLimit created last (ids are handed out in creation order).
PendingSessionIds(sessions, score_rows) ==
    LET pending == { s \in DOMAIN sessions :
                       /\ sessions[s].present
                       /\ sessions[s].status \in {"submitted", "completed"}
                       /\ (~score_rows[s].present \/ score_rows[s].ai_total_score = NULL) }
    IN  { s \in pending : Cardinality({ x \in pending : x > s }) < PendingLimit }

RECURSIVE EnqueueAll(_, _, _)
EnqueueAll(inflight, thr, ids) ==
    IF ids = {} THEN [inflight |-> inflight, threads |-> thr]
    ELSE LET s == CHOOSE x \in ids : TRUE
             q == EnqueueSessionEvaluation(inflight, thr, s)
         IN  EnqueueAll(q.inflight, q.threads, ids \ {s})

\* list_admin_results, lines 445-460: the pending sessions are enqueued
ListAdminResultsEnqueue(sessions, score_rows, inflight, thr) ==
    EnqueueAll(inflight, thr, PendingSessionIds(sessions, score_rows))

\* list_admin_results
ListAdminResults ==
    /\ LET q == ListAdminResultsEnqueue(candidate_sessions, scores,
                                        evaluation_inflight, threads)
       IN  /\ evaluation_inflight' = q.inflight
           /\ threads' = q.threads
    /\ UNCHANGED <<users, candidate_sessions, issued, candidate_responses, scores,
                   manual_evals, pending_uploads, upload_returned, mirror_enabled, mirror_last,
                   delete_returned, fn_call, fn_result>>

\* get_admin_session_detail
GetAdminSessionDetail(s) ==
    /\ candidate_sessions[s].present
    /\ LET q == IF s \in PendingSessionIds(candidate_sessions, scores)
                THEN EnqueueSessionEvaluation(evaluation_inflight, threads, s)
                ELSE [inflight |-> evaluation_inflight, threads |-> threads]
       IN  /\ evaluation_inflight' = q.inflight
           /\ threads' = q.threads
    /\ UNCHANGED <<users, candidate_sessions, issued, candidate_responses, scores,
                   manual_evals, pending_uploads, upload_returned, mirror_enabled, mirror_last,
                   delete_returned, fn_call, fn_result>>

\* The evaluator totals an admin sends in this model.
EvaluatorTotals == {Some(600)}

\* upsert_admin_session_scores, lines 581-587: the fields of the payload that
\* are set (updates: field -> value) are stored
EvaluatorDimensions(score_row, updates) ==
    [score_row EXCEPT
        !.evaluator_communication_score =
            IF "communication_score" \in DOMAIN updates
            THEN updates["communication_score"] ELSE @,
        !.evaluator_content_score =
            IF "content_score" \in DOMAIN updates THEN updates["content_score"] ELSE @,
        !.evaluator_confidence_score =
            IF "confidence_score" \in DOMAIN updates
            THEN updates["confidence_score"] ELSE @]

\* Mutant: the total is not nulled when a dimension score is missing.
EvaluatorUpdateKeepingTotal(score_row, updates) ==
    LET row == EvaluatorDimensions(score_row, updates)
    IN  IF "total_score" \in DOMAIN updates
        THEN [row EXCEPT !.evaluator_total_score = updates["total_score"]]
        ELSE IF /\ DOMAIN updates # {}
                /\ row.evaluator_communication_score # NULL
                /\ row.evaluator_content_score # NULL
                /\ row.evaluator_confidence_score # NULL
        THEN [row EXCEPT !.evaluator_total_score =
                 Some(RoundDiv(45 * Val(row.evaluator_communication_score)
                               + 45 * Val(row.evaluator_content_score)
                               + 10 * Val(row.evaluator_confidence_score), 100))]
        ELSE row

\* upsert_admin_session_scores, lines 581-616: the Score row after the
\* updates; a total_score in the payload is stored as it is, otherwise a
\* dimension score in the payload makes the total the rounded weighted sum of
\* the stored dimension scores, or null when one of them is null
EvaluatorUpdate(score_row, updates) ==
    LET row == EvaluatorDimensions(score_row, updates)
    IN  IF "total_score" \in DOMAIN updates
        THEN [row EXCEPT !.evaluator_total_score = updates["total_score"]]
        ELSE IF DOMAIN updates = {} THEN row
        ELSE IF /\ row.evaluator_communication_score # NULL
                /\ row.evaluator_content_score # NULL
                /\ row.evaluator_confidence_score # NULL
        THEN [row EXCEPT !.evaluator_total_score =
                 Some(RoundDiv(45 * Val(row.evaluator_communication_score)
                               + 45 * Val(row.evaluator_content_score)
                               + 10 * Val(row.evaluator_confidence_score), 100))]
        ELSE [row EXCEPT !.evaluator_total_score = NULL]

\* upsert_admin_session_scores with a payload that sets total_score: refused
\* (400) unless a user row with a candidate_id matches the session
UpsertAdminSessionScores(s, total_score) ==
    /\ candidate_sessions[s].present
    /\ \E e \in Emails :
          /\ users[e].present
          /\ users[e].candidate_id # NULL
          /\ (users[e].candidate_id = Some(candidate_sessions[s].candidate_id)
              \/ e = candidate_sessions[s].candidate_id)
    /\ scores' = [scores EXCEPT ![s] =
                     EvaluatorUpdate([@ EXCEPT !.present = TRUE],
                                     [key \in {"total_score"} |-> total_score])]
    /\ \E mirror_outcome \in MirrorOutcomes :
           \E mirror \in {SyncSession(mirror_enabled, mirror_last, mirror_outcome)} :
               /\ mirror_enabled' = mirror.enabled
               /\ mirror_last' = mirror.last
    /\ UNCHANGED <<users, candidate_sessions, issued, candidate_responses,
                   evaluation_inflight, threads, manual_evals, pending_uploads,
                   upload_returned, delete_returned, fn_call, fn_result>>

\* Mutant: the relationships have no delete cascade; the responses stay.
DeleteAdminSessionWithoutCascade(s) ==
    /\ candidate_sessions[s].present
    /\ scores' = [scores EXCEPT ![s] = NoScore]
    /\ candidate_sessions' = [candidate_sessions EXCEPT ![s] = NoSession]
    /\ \E mirror_outcome \in MirrorOutcomes :
           \E mirror \in {DeleteSession(mirror_enabled, mirror_last, mirror_outcome)} :
               /\ mirror_enabled' = mirror.enabled
               /\ mirror_last' = mirror.last
               /\ delete_returned' = [delete_returned EXCEPT ![s] =
                      IF mirror.raised THEN "raised" ELSE "deleted"]
    /\ UNCHANGED <<users, issued, candidate_responses, evaluation_inflight, threads,
                   manual_evals, pending_uploads, upload_returned, fn_call, fn_result>>

\* delete_admin_session: the Score row, the session and, by the cascade of the
\* relationships, its questions and responses
DeleteAdminSession(s) ==
    /\ candidate_sessions[s].present
    /\ scores' = [scores EXCEPT ![s] = NoScore]
    /\ candidate_sessions' = [candidate_sessions EXCEPT ![s] = NoSession]
    /\ candidate_responses' = candidate_responses \ ResponsesOf(candidate_responses, s)
    /\ \E mirror_outcome \in MirrorOutcomes :
           \E mirror \in {DeleteSession(mirror_enabled, mirror_last, mirror_outcome)} :
               /\ mirror_enabled' = mirror.enabled
               /\ mirror_last' = mirror.last
               /\ delete_returned' = [delete_returned EXCEPT ![s] =
                      IF mirror.raised THEN "raised" ELSE "deleted"]
    /\ UNCHANGED <<users, issued, evaluation_inflight, threads, manual_evals,
                   pending_uploads, upload_returned, fn_call, fn_result>>

\* ---------------------------------------------------------- specification
\* The steps of the session-eval threads of session s.
ThreadStepOf(s) ==
    \E i \in 1..Len(threads[s]) :
        \/ ThreadAttempt(s, i)
        \/ \E llm_scores \in LLMResults : ThreadQuestion(s, i, llm_scores)
        \/ ThreadExit(s, i)

ThreadStep == \E s \in SessionIds : ThreadStepOf(s)

Next ==
    \/ \E e \in Emails : Auth0Callback(e)
    \/ \E e \in Emails : StartCandidateSession(e)
    \/ \E e \in Emails, s \in SessionIds, q \in Questions : UploadExisting(e, s, q)
    \/ \E e \in Emails, s \in SessionIds, q \in Questions : UploadBegin(e, s, q)
    \/ \E s \in SessionIds, q \in Questions, fk \in BOOLEAN : UploadFinish(s, q, fk)
    \/ ThreadStep
    \/ \E s \in SessionIds : AdminEvaluateBegin(s)
    \/ \E i \in 1..Len(manual_evals), llm_scores \in LLMResults :
           AdminEvaluateQuestion(i, llm_scores)
    \/ ListAdminResults
    \/ \E s \in SessionIds : GetAdminSessionDetail(s)
    \/ \E s \in SessionIds, t \in EvaluatorTotals : UpsertAdminSessionScores(s, t)
    \/ \E s \in SessionIds : DeleteAdminSession(s)

Spec == Init /\ [][Next]_vars

\* A started thread keeps running: its sleeps are finite and its calls return
\* (the LLM request has a timeout), and no request handler blocks it for good.
FairSpec == Spec /\ \A s \in SessionIds : WF_vars(ThreadStepOf(s))

\* A process whose mirror service was constructed with a reachable target.
MirrorInit ==
    /\ StoreInit
    /\ mirror_enabled = TRUE
    /\ mirror_last = "none"
    /\ fn_call = NoCall
    /\ fn_result = NoCall

MirrorSpec == MirrorInit /\ [][Next]_vars

\* ------------------------------------------------- calls of the functions
\* The functions of the services, applied to arguments drawn from bounded
\* sets: fn_call holds the arguments, fn_result what the call returned.
MaxTableSessions == 22
TableSizes == {0, 1, 2, PendingLimit, PendingLimit + 1, MaxTableSessions}

\* Tables of n sessions: the first k submitted and without a Score row, the
\* others with the given status and Score row.
TableSessions(n, k, status) ==
    [s \in 1..n |-> [present |-> TRUE, candidate_id |-> "old@",
                     status |-> IF s <= k THEN "submitted" ELSE status,
                     status_label |-> ""]]

TableScores(n, k, score_row) ==
    [s \in 1..n |-> IF s <= k THEN NoScore ELSE score_row]

ListAdminResultsCalls ==
    UNION { { [function |-> "list_admin_results",
               sessions |-> TableSessions(n, k, status),
               score_rows |-> TableScores(n, k, score_row),
               inflight |-> inflight,
               threads |-> [s \in 1..n |-> IF s \in inflight THEN <<NewThread>> ELSE <<>>]] :
              k \in 0..n,
              status \in {"in_progress", "submitted", "completed"},
              score_row \in {NoScore,
                             [NoScore EXCEPT !.present = TRUE],
                             [NoScore EXCEPT !.present = TRUE, !.ai_total_score = Some(735)]},
              inflight \in {{}, {1} \cap (1..n), {n} \cap (1..n)} } :
            n \in TableSizes }

\* evaluate_session on a submitted session of a user with a candidate_id, for
\* every set of answered questions and every LLM result per response.
EvaluateSessionCalls ==
    UNION { { [function |-> "evaluate_session",
               sessions |-> [s \in {1} |-> [present |-> TRUE, candidate_id |-> "old@",
                                            status |-> "submitted", status_label |-> ""]],
               responses |-> { [id |-> q, session_id |-> 1, question_id |-> q] :
                               q \in answered },
               score_rows |-> [s \in {1} |-> NoScore],
               llm |-> llm] :
              llm \in [answered -> LLMResults] } :
            answered \in SUBSET Questions }

\* score_answer on LLM score dicts, an entry being missing (NULL) or a
\* number of hundredths: on the scale of 10, as a fraction, out of range.
ScoreAnswerCalls ==
    { [function |-> "score_answer",
       llm_override |-> [communication_score |-> cm, content_score |-> ct,
                         relevance_score |-> rl, confidence_score |-> cf,
                         final_score |-> fs]] :
      cm \in {Some(0), Some(1000)},
      ct \in {NULL, Some(0), Some(1000)},
      rl \in {NULL, Some(-100), Some(0), Some(30), Some(50), Some(100), Some(200),
              Some(300), Some(301), Some(500), Some(501), Some(1000)},
      cf \in {Some(0), Some(1000)},
      fs \in {NULL, Some(40), Some(450), Some(451), Some(650), Some(651), Some(1000)} }

\* classify_score on every score of [0, 10] given to two decimals
MaxScore == 1000
ClassifyScoreCalls == { [function |-> "classify_score", score |-> score] : score \in 0..MaxScore }

\* select_questions on banks of up to MaxBank questions with ids 1..MaxBank
\* (an id list may also name MaxBank + 1, which no question has), for the
\* counts 1..MaxCount: in mixed mode with every always-include set, in fixed
\* mode with every typing of the questions and some fixed_question_ids.
MaxBank == 3
MaxCount == 3

Bank(types) == [i \in DOMAIN types |-> [id |-> i, type |-> types[i]]]

SelectQuestionsCalls ==
    UNION { { [function |-> "select_questions",
               payload |-> [questions |-> Bank([i \in 1..n |-> "fixed"]),
                            always_include_ids |-> always_ids,
                            fixed_question_ids |-> <<>>],
               mode |-> "mixed",
               count |-> count] :
              always_ids \in SUBSET (1..(MaxBank + 1)), count \in 1..MaxCount }
            \cup
            { [function |-> "select_questions",
               payload |-> [questions |-> Bank(types),
                            always_include_ids |-> {},
                            fixed_question_ids |-> fixed_ids],
               mode |-> "fixed",
               count |-> count] :
              types \in [1..n -> {"fixed", "random"}],
              fixed_ids \in {<<>>, <<3>>, <<2, 1>>, <<3, 1, 2>>, <<2, 4, 2, 1>>},
              count \in 1..MaxCount } :
            n \in 0..MaxBank }

\* LLMScoringService.evaluate with and without a client, for everything
\* the requests can end as
LlmEvaluateCalls ==
    { [function |-> "evaluate", client |-> client, responses |-> responses] :
      client \in BOOLEAN, responses \in [DOMAIN RetryDelays -> LlmResponses] }

\* The update of the Score row by upsert_admin_session_scores, for a row
\* that is new or has some evaluator scores, and every payload that sets
\* some of the four fields, each to null or to a score.
UpdateKeys == {"communication_score", "content_score", "confidence_score", "total_score"}

EvaluatorUpdateCalls ==
    { [function |-> "upsert_admin_session_scores",
       score_row |-> [present |-> TRUE, ai_total_score |-> NULL,
                      evaluator_communication_score |-> cm,
                      evaluator_content_score |-> ct,
                      evaluator_confidence_score |-> cf,
                      evaluator_total_score |-> total],
       updates |-> updates] :
      cm \in {NULL, Some(700)}, ct \in {NULL, Some(700)},
      cf \in {NULL, Some(600)}, total \in {NULL, Some(600)},
      updates \in UNION { [keys -> {NULL, Some(800)}] : keys \in SUBSET UpdateKeys } }
    \cup
    { [function |-> "upsert_admin_session_scores",
       score_row |-> NoScore,
       updates |-> updates] :
      updates \in UNION { [keys -> {NULL, Some(800)}] : keys \in SUBSET UpdateKeys } }

\* clean_text on the texts of up to MaxTokens tokens
MaxTokens == 5

CleanTextCalls ==
    UNION { { [function |-> "clean_text", text |-> text] :
              text \in [1..n -> Words \cup {Whitespace}] } : n \in 0..MaxTokens }

\* The candidate requests upload, upload-status and progress of a signed-in
\* user for session 1, which is absent or belongs to either user, with the
\* responses of any of its questions.
CandidateRequests == {"upload_candidate_response", "get_question_upload_status",
                      "get_session"}

CandidateRequestCalls ==
    { [function |-> function,
       sessions |-> [s \in SessionIds |-> session],
       responses |-> { [id |-> a, session_id |-> 1, question_id |-> a] : a \in answered },
       score_rows |-> [s \in SessionIds |-> NoScore],
       inflight |-> {},
       threads |-> [s \in SessionIds |-> <<>>],
       email |-> email,
       question_id |-> q] :
      function \in CandidateRequests,
      session \in {NoSession} \cup
                  { [present |-> TRUE, candidate_id |-> candidate_id,
                     status |-> status, status_label |-> ""] :
                    candidate_id \in Emails,
                    status \in {"in_progress", "submitted", "completed"} },
      answered \in SUBSET Questions,
      email \in Emails,
      q \in 1..(NumQuestions + 1) }

\* The scoring of one response for LLM answers whose communication and
\* confidence scores lie below, in and above the ranges [0, 1] and [0, 10].
RawScores == {NULL, Some(-100), Some(0), Some(5), Some(10), Some(50), Some(100),
              Some(101), Some(500), Some(1000), Some(1200)}

ScoreResponseCalls ==
    { [function |-> "score_response",
       data |-> [communication_score |-> cm, content_score |-> Some(700),
                 relevance_score |-> Some(700), confidence_score |-> cf,
                 final_score |-> fs]] :
      cm \in RawScores, cf \in RawScores, fs \in {NULL, Some(700)} }

FunctionCalls ==
    ListAdminResultsCalls \cup EvaluateSessionCalls \cup ScoreAnswerCalls
    \cup ClassifyScoreCalls \cup SelectQuestionsCalls \cup LlmEvaluateCalls
    \cup EvaluatorUpdateCalls \cup CleanTextCalls \cup CandidateRequestCalls
    \cup ScoreResponseCalls

CallInit ==
    /\ StoreInit
    /\ mirror_enabled = FALSE
    /\ mirror_last = "none"
    /\ fn_call \in FunctionCalls
    /\ fn_result = NoCall

\* fn_call returns value.
Returns(value) ==
    /\ fn_result = NoCall
    /\ fn_result' = [function |-> fn_call.function, value |-> value]
    /\ UNCHANGED <<users, candidate_sessions, issued, candidate_responses, scores,
                   evaluation_inflight, threads, manual_evals, pending_uploads,
                   upload_returned, delete_returned, mirror_enabled, mirror_last,
                   fn_call>>

CallListAdminResults ==
    /\ fn_call.function = "list_admin_results"
    /\ Returns(ListAdminResultsEnqueue(fn_call.sessions, fn_call.score_rows,
                                       fn_call.inflight, fn_call.threads))

CallEvaluateSession ==
    /\ fn_call.function = "evaluate_session"
    /\ Returns(EvaluateSession(fn_call.sessions, fn_call.responses, fn_call.score_rows,
                               users, 1, fn_call.llm))

CallScoreAnswer ==
    /\ fn_call.function = "score_answer"
    /\ Returns(ScoreAnswer(fn_call.llm_override))

CallClassifyScore ==
    /\ fn_call.function = "classify_score"
    /\ Returns(ClassifyScore(fn_call.score))

CallSelectQuestions ==
    /\ fn_call.function = "select_questions"
    /\ \E result \in SelectQuestions(fn_call.payload, fn_call.mode, fn_call.count) :
           Returns(result)

CallLlmEvaluate ==
    /\ fn_call.function = "evaluate"
    /\ Returns(LlmEvaluate(fn_call.client, fn_call.responses))

CallEvaluatorUpdate ==
    /\ fn_call.function = "upsert_admin_session_scores"
    /\ Returns(EvaluatorUpdate([fn_call.score_row EXCEPT !.present = TRUE],
                               fn_call.updates))

CallCleanText ==
    /\ fn_call.function = "clean_text"
    /\ Returns(CleanText(fn_call.text))

CallUploadCandidateResponse ==
    /\ fn_call.function = "upload_candidate_response"
    /\ Returns(UploadCandidateResponse(fn_call.sessions, fn_call.responses,
                                       fn_call.score_rows, fn_call.inflight,
                                       fn_call.threads, fn_call.email, 1,
                                       fn_call.question_id))

CallGetQuestionUploadStatus ==
    /\ fn_call.function = "get_question_upload_status"
    /\ Returns(GetQuestionUploadStatus(fn_call.sessions, fn_call.responses,
                                       fn_call.inflight, fn_call.threads,
                                       fn_call.email, 1, fn_call.question_id))

CallGetSession ==
    /\ fn_call.function = "get_session"
    /\ Returns(GetSession(fn_call.sessions, fn_call.responses, fn_call.inflight,
                          fn_call.threads, fn_call.email, 1))

CallScoreResponse ==
    /\ fn_call.function = "score_response"
    /\ Returns(ScoreResponse(fn_call.data))

CallNext ==
    \/ CallListAdminResults
    \/ CallEvaluateSession
    \/ CallScoreAnswer
    \/ CallClassifyScore
    \/ CallSelectQuestions
    \/ CallLlmEvaluate
    \/ CallEvaluatorUpdate
    \/ CallCleanText
    \/ CallUploadCandidateResponse
    \/ CallGetQuestionUploadStatus
    \/ CallGetSession
    \/ CallScoreResponse

CallSpec == CallInit /\ [][CallNext]_vars


\* ------------------------------------------------------------------ claims
Rank(status) ==
    CASE status = "in_progress" -> 1
      [] status = "submitted" -> 2
      [] status = "completed" -> 3
      [] OTHER -> 0

AllUploaded(s) ==
    /\ candidate_sessions[s].present
    /\ \A q \in Questions : ExistingResponse(candidate_responses, s, q) # {}

HasAiTotal(s) == scores[s].present /\ scores[s].ai_total_score # NULL

\* A step in which an attempt of thread i of session s fails.
AttemptFails(s, i) ==
    /\ i \in DOMAIN threads[s]
    /\ Len(threads'[s]) = Len(threads[s])
    /\ threads[s][i].pc # "exit"
    /\ threads'[s][i] = ThreadAfterFailure([threads[s][i] EXCEPT
                            !.calls = IF threads[s][i].pc = "attempt" THEN @ + 1 ELSE @])

\* A step in which evaluate_session returns normally to thread i of session s.
AttemptSucceeds(s, i) ==
    /\ i \in DOMAIN threads[s]
    /\ Len(threads'[s]) = Len(threads[s])
    /\ ~threads[s][i].succeeded
    /\ threads'[s][i].succeeded

\* C1: at any time at most one session-eval thread exists for a session id,
\* and a step taken while the id is in the in-flight set starts no thread
\* for it.
TheoremC1 ==
    /\ [](\A s \in SessionIds : Len(threads[s]) <= 1)
    /\ [][\A s \in SessionIds :
            s \in evaluation_inflight => Len(threads'[s]) <= Len(threads[s])]_vars

\* A thread is in its question loop while the session still counts as pending
\* for the admin pages and has all its responses: the enqueues of a repeat
\* upload and of the admin loads meet an id that is in flight.
WitnessC1 ==
    \E s \in SessionIds :
        /\ s \in evaluation_inflight
        /\ Len(threads[s]) = 1
        /\ threads[s][1].pc = "questions"
        /\ threads[s][1].attempt >= 1
        /\ AllUploaded(s)
        /\ s \in PendingSessionIds(candidate_sessions, scores)

\* C2 as claimed: the status of a session never moves backward, except in a
\* step in which a background attempt fails.
ClaimC2 ==
    [][\A s \in SessionIds :
         (candidate_sessions[s].present /\ candidate_sessions'[s].present
          /\ Rank(candidate_sessions'[s].status) < Rank(candidate_sessions[s].status))
         => \E i \in DOMAIN threads[s] : AttemptFails(s, i)]_vars

\* C3 as claimed: a completed session has a Score row with an ai_total_score.
ClaimC3 ==
    \A s \in SessionIds :
        (candidate_sessions[s].present /\ candidate_sessions[s].status = "completed")
        => HasAiTotal(s)


\* A step in which the upload endpoint answers a request for (s, q).
UploadAnswers(s, q) ==
    \/ \E e \in Emails : UploadExisting(e, s, q)
    \/ /\ \E fk \in BOOLEAN : UploadFinish(s, q, fk)
       /\ candidate_sessions[s].present
       /\ candidate_responses' # candidate_responses

SchedulingUnchanged(s) ==
    /\ candidate_sessions'[s].status = candidate_sessions[s].status
    /\ evaluation_inflight' = evaluation_inflight
    /\ threads' = threads

\* C4: an upload that leaves every question of the session with a response
\* sets the status to submitted and enqueues an evaluation (a thread is
\* started unless the id is in flight already), unless the session is
\* completed with an AI total score; an upload that leaves a question without
\* a response changes neither the status nor the in-flight set.
TheoremC4 ==
    [][\A s \in SessionIds, q \in Questions :
         UploadAnswers(s, q) =>
           IF \A x \in Questions :
                  \E r \in candidate_responses' : r.session_id = s /\ r.question_id = x
           THEN IF candidate_sessions[s].status = "completed" /\ HasAiTotal(s)
                THEN SchedulingUnchanged(s)
                ELSE /\ candidate_sessions'[s].status = "submitted"
                     /\ evaluation_inflight' = evaluation_inflight \cup {s}
                     /\ threads'[s] = IF s \in evaluation_inflight THEN threads[s]
                                      ELSE Append(threads[s], NewThread)
           ELSE SchedulingUnchanged(s)]_vars

\* Each question was uploaded once, the last upload completed the set: the
\* session is submitted and its first thread has just been started.
WitnessC4 ==
    \E s \in SessionIds :
        /\ AllUploaded(s)
        /\ \A q \in Questions : Len(upload_returned[<<s, q>>]) = 1
        /\ manual_evals = <<>>
        /\ candidate_sessions[s].status = "submitted"
        /\ s \in evaluation_inflight
        /\ threads[s] = <<NewThread>>

\* C5: a thread calls evaluate_session at most RetryCount times, is past its
\* loop once a call has succeeded, and ends.
TheoremC5 ==
    /\ [](\A s \in SessionIds : \A i \in DOMAIN threads[s] :
             /\ threads[s][i].calls <= RetryCount
             /\ threads[s][i].succeeded => threads[s][i].pc = "exit")
    /\ \A s \in SessionIds : (threads[s] # <<>>) ~> (threads[s] = <<>>)

\* A thread has left its loop after RetryCount calls.
WitnessC5 ==
    \E s \in SessionIds : \E i \in DOMAIN threads[s] :
        /\ threads[s][i].calls = RetryCount
        /\ threads[s][i].pc = "exit"
        /\ ~threads[s][i].succeeded

\* C6 as claimed: after a failed background attempt the status of the session
\* is submitted.
ClaimC6 ==
    [][\A s \in SessionIds : \A i \in DOMAIN threads[s] :
         (AttemptFails(s, i) /\ candidate_sessions[s].present)
         => candidate_sessions'[s].status = "submitted"]_vars

\* C6 amended: after a failed background attempt the status of the session is
\* submitted, unless the session was completed already, which it then remains.
TheoremC6 ==
    [][\A s \in SessionIds : \A i \in DOMAIN threads[s] :
         (AttemptFails(s, i) /\ candidate_sessions[s].present)
         => candidate_sessions'[s].status =
                IF candidate_sessions[s].status = "completed"
                THEN "completed" ELSE "submitted"]_vars

\* An attempt has failed for a session that another evaluation had completed
\* (it has its AI total), and the thread is about to try again.
WitnessC6 ==
    \E s \in SessionIds :
        /\ Len(threads[s]) = 1
        /\ threads[s][1].pc = "attempt"
        /\ threads[s][1].attempt >= 1
        /\ candidate_sessions[s].present
        /\ candidate_sessions[s].status = "completed"
        /\ HasAiTotal(s)

\* The passes evaluate_session can end with in one more round from ev.
LastRounds(ev) ==
    { pass \in { EvaluationAccumulate(ev, Val(llm_scores)) :
                    llm_scores \in LLMResults \ {NULL} } : pass.idx > NumQuestions }

\* C7 as claimed: when evaluate_session returns to a background thread, the
\* session is completed and its Score row holds the computed final score.
ClaimC7 ==
    [][\A s \in SessionIds : \A i \in DOMAIN threads[s] :
         AttemptSucceeds(s, i) =>
           /\ candidate_sessions'[s].status = "completed"
           /\ scores'[s].present
           /\ \E pass \in LastRounds(threads[s][i].evaluation) :
                  scores'[s].ai_total_score = Some(FinalScore(pass))]_vars

RowsOf(responses, s, q) == { r \in responses : r.session_id = s /\ r.question_id = q }

\* C8: all answers of the endpoint for one (session, question) carry the same
\* response id; once the pair has a response, no request for it gets as far as
\* the media store, no row is added for the pair, and an answer carries the id
\* of that response.
TheoremC8 ==
    /\ [](\A p \in Pairs : \A i, j \in DOMAIN upload_returned[p] :
             upload_returned[p][i] = upload_returned[p][j])
    /\ [][\A s \in SessionIds, q \in Questions :
            \A r \in RowsOf(candidate_responses, s, q) :
               /\ pending_uploads'[<<s, q>>] <= pending_uploads[<<s, q>>]
               /\ RowsOf(candidate_responses', s, q) \subseteq {r}
               /\ upload_returned'[<<s, q>>] \in
                      {upload_returned[<<s, q>>], Append(upload_returned[<<s, q>>], r.id)}]_vars

\* The endpoint has answered twice for a pair.
WitnessC8 ==
    \E p \in Pairs :
        /\ Len(upload_returned[p]) = 2
        /\ Cardinality(RowsOf(candidate_responses, p[1], p[2])) = 1

\* C9: at most one candidate_responses row per (session id, question id).
TheoremC9 ==
    \A s \in SessionIds, q \in Questions :
        Cardinality(RowsOf(candidate_responses, s, q)) <= 1

\* A pair has its row while another upload of the same pair, which found no
\* row before its await, is still to insert.
WitnessC9 ==
    \E p \in Pairs :
        /\ RowsOf(candidate_responses, p[1], p[2]) # {}
        /\ pending_uploads[p] >= 1

Evaluations(s) ==
    { threads[s][i].evaluation : i \in { j \in DOMAIN threads[s] : threads[s][j].pc = "questions" } }
    \cup { manual_evals[i].evaluation :
             i \in { j \in DOMAIN manual_evals : manual_evals[j].session_id = s } }

\* C10: a round of the question loop without LLM scores ends the call: no
\* Score row is written, the status does not become completed and the totals
\* of the pass are dropped; a pass is counted only with every response it
\* loaded scored, and only such a pass writes an ai_total_score or completes
\* the session.
TheoremC10 ==
    /\ [](\A s \in SessionIds : \A ev \in Evaluations(s) :
             ev.evaluated_count = Cardinality({ q \in ev.response_map : q < ev.idx }))
    /\ [][\A s \in SessionIds :
            /\ \A i \in DOMAIN threads[s] :
                 ThreadQuestion(s, i, NULL) =>
                   /\ AttemptFails(s, i)
                   /\ scores' = scores
                   /\ candidate_sessions'[s].status = "completed"
                        => candidate_sessions[s].status = "completed"
            /\ ( \/ /\ scores'[s].ai_total_score # scores[s].ai_total_score
                    /\ scores'[s].ai_total_score # NULL
                 \/ /\ candidate_sessions'[s].status = "completed"
                    /\ candidate_sessions[s].status # "completed" )
               => \E ev \in Evaluations(s) : \E pass \in LastRounds(ev) :
                     /\ pass.evaluated_count = Cardinality(pass.response_map)
                     /\ pass.evaluated_count > 0
                     /\ scores'[s].ai_total_score \in
                            {scores[s].ai_total_score, Some(FinalScore(pass))}]_vars

\* An attempt has failed without LLM scores: the session has all its responses,
\* is submitted and has no Score row, and the thread is about to try again.
WitnessC10 ==
    \E s \in SessionIds :
        /\ Len(threads[s]) = 1
        /\ threads[s][1].pc = "attempt"
        /\ threads[s][1].attempt >= 1
        /\ AllUploaded(s)
        /\ candidate_sessions[s].status = "submitted"
        /\ ~scores[s].present

\* ---------------------------------------------------------------- C11
Called(function) == fn_call.function = function /\ fn_result.function = function

LacksAiTotal(score_row) == ~score_row.present \/ score_row.ai_total_score = NULL

\* The listing call enqueued session s: s is in flight afterwards, with one
\* more thread than before unless it was in flight already.
Enqueued(s) ==
    /\ s \in fn_result.value.inflight
    /\ Len(fn_result.value.threads[s]) =
          Len(fn_call.threads[s]) + (IF s \in fn_call.inflight THEN 0 ELSE 1)

\* C11 as stated: loading the admin results list enqueues an evaluation for
\* every submitted session without an AI total score, unless one is in flight.
ClaimC11 ==
    Called("list_admin_results") =>
        \A s \in DOMAIN fn_call.sessions :
            (/\ fn_call.sessions[s].status = "submitted"
             /\ LacksAiTotal(fn_call.score_rows[s]))
            => Enqueued(s)

\* Among the sessions that are submitted or completed and lack an AI total
\* score, s is one of the PendingLimit created last.
RecentPending(s) ==
    LET pending(x) == /\ fn_call.sessions[x].status \in {"submitted", "completed"}
                      /\ LacksAiTotal(fn_call.score_rows[x])
    IN  /\ pending(s)
        /\ Cardinality({ x \in DOMAIN fn_call.sessions : x > s /\ pending(x) })
              < PendingLimit

\* C11, amended: loading the admin results list enqueues an evaluation for
\* each of the 20 most recently created sessions that are submitted or
\* completed and have no AI total score, unless one is already in flight for
\* it; no other session is enqueued.
TheoremC11 ==
    Called("list_admin_results") =>
        \A s \in DOMAIN fn_call.sessions :
            IF RecentPending(s) THEN Enqueued(s)
            ELSE /\ fn_result.value.threads[s] = fn_call.threads[s]
                 /\ s \in fn_result.value.inflight <=> s \in fn_call.inflight

WitnessC11 ==
    /\ Called("list_admin_results")
    /\ Cardinality(DOMAIN fn_call.sessions) = MaxTableSessions
    /\ \E s \in DOMAIN fn_call.sessions :
          /\ fn_call.sessions[s].status = "submitted"
          /\ RecentPending(s)
          /\ s \notin fn_call.inflight
          /\ Len(fn_result.value.threads[s]) = 1
    /\ \E s \in fn_call.inflight : RecentPending(s) /\ Len(fn_result.value.threads[s]) = 1
    /\ \E s \in DOMAIN fn_call.sessions : ~RecentPending(s)

\* ---------------------------------------------------------------- C12
RECURSIVE SumOver(_, _)
SumOver(f, S) ==
    IF S = {} THEN 0
    ELSE LET x == CHOOSE y \in S : TRUE IN f[x] + SumOver(f, S \ {x})

\* The per-response scores of the call's responses, as score_answer gives them.
ResponseScores == [q \in DOMAIN fn_call.llm |-> ScoreAnswer(Val(fn_call.llm[q]))]

\* round((0.45*sumCommunication + 0.45*sumContent + 0.10*sumConfidence) / n, 2)
ExpectedFinalScore ==
    LET answered == DOMAIN fn_call.llm
        sumCommunication == SumOver([q \in answered |-> ResponseScores[q].communication_score], answered)
        sumContent == SumOver([q \in answered |-> ResponseScores[q].content_score], answered)
        sumConfidence == SumOver([q \in answered |-> ResponseScores[q].confidence_score], answered)
    IN  RoundDiv(45 * sumCommunication + 45 * sumContent + 10 * sumConfidence,
                 100 * Cardinality(answered))

EndToEndAnswer == Sanitize(RawAnswer(Some(800), Some(700), Some(700), Some(600)))

\* C12: when evaluate_session succeeds, the final score is the rounded
\* weighted sum of the per-response totals divided by the number of evaluated
\* responses and the label is classify_score of it; two responses both scored
\* (8, 7, 7, 6) give 7.35 and Good.
TheoremC12 ==
    (Called("evaluate_session") /\ fn_result.value.returned) =>
        /\ fn_result.value.scores[1].ai_total_score = Some(ExpectedFinalScore)
        /\ fn_result.value.sessions[1].status_label = ClassifyScore(ExpectedFinalScore)
        /\ fn_result.value.sessions[1].status = "completed"
        /\ (fn_call.llm = [q \in 1..2 |-> EndToEndAnswer]) =>
               /\ fn_result.value.scores[1].ai_total_score = Some(735)
               /\ fn_result.value.sessions[1].status_label = "Good"

WitnessC12 ==
    /\ Called("evaluate_session")
    /\ fn_result.value.returned
    /\ fn_call.llm = [q \in 1..2 |-> EndToEndAnswer]
    /\ fn_result.value.scores[1].ai_total_score = Some(735)

\* ---------------------------------------------------------------- C13
\* C13 as stated: for every LLM score dict given to score_answer, with or
\* without a final_score entry, the returned final_score is at most 4.5 when
\* the dict's relevance_score is <= 3 and at most 6.5 when it is <= 5.
ClaimC13 ==
    (Called("score_answer") /\ fn_call.llm_override.relevance_score # NULL) =>
        LET relevance_score == Val(fn_call.llm_override.relevance_score)
        IN  /\ relevance_score <= 300 => fn_result.value.final_score <= 450
            /\ relevance_score <= 500 => fn_result.value.final_score <= 650

\* ---------------------------------------------------------------- C14
\* C14: classify_score(s) is Below Average exactly when s <= 2.5, Average
\* exactly when 2.5 < s <= 5.0, Good exactly when 5.0 < s < 7.5 and Excellent
\* exactly when s >= 7.5, for every s of [0, 10] given to two decimals.
TheoremC14 ==
    Called("classify_score") =>
        LET s == fn_call.score
            label == fn_result.value
        IN  /\ label = "Below Average" <=> s <= 250
            /\ label = "Average" <=> (250 < s /\ s <= 500)
            /\ label = "Good" <=> (500 < s /\ s < 750)
            /\ label = "Excellent" <=> s >= 750

WitnessC14 ==
    /\ Called("classify_score")
    /\ fn_call.score = 750
    /\ fn_result.value = "Excellent"

\* ---------------------------------------------------------------- C15
\* The number of questions of the call's bank that remain after the filtering
\* of the call's selection mode.
Remaining ==
    LET questions == fn_call.payload.questions
        ids(S) == { i \in DOMAIN questions : questions[i].id \in S }
        fixed_ids == fn_call.payload.fixed_question_ids
        typed == { i \in DOMAIN questions : questions[i].type = "fixed" }
    IN  IF fn_call.mode = "mixed" THEN Len(questions)
        ELSE IF fixed_ids # <<>>
        THEN Cardinality(ids({ fixed_ids[i] : i \in DOMAIN fixed_ids }))
        ELSE IF typed # {} THEN Cardinality(typed)
        ELSE Len(questions)

\* C15: select_questions returns exactly N questions or fails; it fails
\* whenever fewer than N questions remain after the filtering of the selection
\* mode, and never returns fewer or more than N.
TheoremC15 ==
    Called("select_questions") =>
        /\ fn_result.value.raised = "" => Len(fn_result.value.questions) = fn_call.count
        /\ fn_result.value.raised # "" <=> Remaining < fn_call.count
        /\ \A i \in DOMAIN fn_result.value.questions :
              \E j \in DOMAIN fn_call.payload.questions :
                  fn_result.value.questions[i] = fn_call.payload.questions[j]

WitnessC15 ==
    /\ Called("select_questions")
    /\ fn_call.mode = "mixed"
    /\ Len(fn_call.payload.questions) = MaxBank
    /\ fn_call.count = 2
    /\ fn_result.value.raised = ""
    /\ Len(fn_result.value.questions) = 2

\* ---------------------------------------------------------------- C16
\* C16 as stated: in mixed mode every successful select_questions result
\* contains every question whose id is in the always-include set.
ClaimC16 ==
    (/\ Called("select_questions")
     /\ fn_call.mode = "mixed"
     /\ fn_result.value.raised = "")
    => \A j \in DOMAIN fn_call.payload.questions :
          fn_call.payload.questions[j].id \in fn_call.payload.always_include_ids
          => \E i \in DOMAIN fn_result.value.questions :
                 fn_result.value.questions[i] = fn_call.payload.questions[j]

\* ---------------------------------------------------------------- C17
\* The requests of the call whose response parses and sanitizes.
Usable ==
    { i \in DOMAIN fn_call.responses :
        /\ fn_call.responses[i].kind = "json"
        /\ Sanitize(fn_call.responses[i].data) # NULL }

\* C17: LLMScoringService.evaluate never raises; it makes at most 3 requests,
\* returns the sanitized result of the first request whose response parses
\* and sanitizes, goes on to the next attempt after an exception or a missing
\* or unparsable response, and returns None when every attempt fails.
TheoremC17 ==
    Called("evaluate") =>
        /\ ~fn_result.value.raised
        /\ fn_result.value.requests <= 3
        /\ IF fn_call.client /\ Usable # {}
           THEN LET first == CHOOSE i \in Usable : \A j \in Usable : i <= j
                IN  /\ fn_result.value.value = Sanitize(fn_call.responses[first].data)
                    /\ fn_result.value.requests = first
           ELSE /\ fn_result.value.value = NULL
                /\ fn_call.client => fn_result.value.requests = 3

WitnessC17 ==
    /\ Called("evaluate")
    /\ fn_call.client
    /\ fn_call.responses[1].kind = "exception"
    /\ fn_call.responses[2].kind = "unparsable"
    /\ fn_call.responses[3].kind = "exception"
    /\ fn_result.value.value = NULL
    /\ fn_result.value.requests = 3

\* ---------------------------------------------------------------- C18
\* The outcomes of an access that are connection-level failures of the mirror.
ConnectionFailures == {"connect_error", "connection_lost"}

\* C18 as stated: after a connection-level failure of the mirror during
\* sync_session or delete_session the service is disabled (when the last
\* access of the mirror failed so, the service is disabled), and it stays
\* disabled: no later call accesses the mirror.
ClaimC18 ==
    /\ [](mirror_last \in ConnectionFailures => ~mirror_enabled)
    /\ [][~mirror_enabled => (~mirror_enabled' /\ mirror_last' = mirror_last)]_vars

\* ---------------------------------------------------------------- C19
\* The step's call of the mirror service reached the mirror and failed there,
\* the access before it having ended otherwise.
MirrorFailure ==
    /\ mirror_enabled
    /\ mirror_last' # mirror_last
    /\ mirror_last' \in ConnectionFailures

\* C19: a failure of the mirror sync or of the mirror delete does not reach
\* the primary path: the evaluate_session call still returns (the thread ends
\* its attempt as a success) with the session and the Score row as it
\* committed them, the score override leaves the total it stored, and the
\* admin delete answers deleted with the session, its responses and its Score
\* row gone.
TheoremC19 ==
    [][MirrorFailure =>
        /\ \A s \in SessionIds : \A i \in DOMAIN threads[s] : \A llm_scores \in LLMResults :
              ThreadQuestion(s, i, llm_scores) =>
                  LET round == EvaluationRound(candidate_sessions, scores, users, s,
                                               threads[s][i].evaluation, llm_scores)
                  IN  round.returned =>
                          /\ threads'[s][i] = ThreadAfterSuccess(threads[s][i])
                          /\ candidate_sessions' = round.sessions
                          /\ scores' = round.scores
        /\ \A i \in DOMAIN manual_evals : \A llm_scores \in LLMResults :
              AdminEvaluateQuestion(i, llm_scores) =>
                  LET round == EvaluationRound(candidate_sessions, scores, users,
                                               manual_evals[i].session_id,
                                               manual_evals[i].evaluation, llm_scores)
                  IN  round.returned =>
                          /\ candidate_sessions' = round.sessions
                          /\ scores' = round.scores
        /\ \A s \in SessionIds : \A total_score \in EvaluatorTotals :
              UpsertAdminSessionScores(s, total_score) =>
                  /\ scores'[s].present
                  /\ scores'[s].evaluator_total_score = total_score
                  /\ scores'[s].ai_total_score = scores[s].ai_total_score
                  /\ candidate_sessions' = candidate_sessions
        /\ \A s \in SessionIds :
              DeleteAdminSession(s) =>
                  /\ delete_returned'[s] = "deleted"
                  /\ ~candidate_sessions'[s].present
                  /\ ~scores'[s].present
                  /\ ResponsesOf(candidate_responses', s) = {}
    ]_vars

WitnessC19 ==
    \E s \in SessionIds :
        /\ delete_returned[s] = "deleted"
        /\ ~candidate_sessions[s].present
        /\ mirror_last = "connect_error"
        /\ mirror_enabled

\* ---------------------------------------------------------------- C20
\* round(0.45*communication + 0.45*content + 0.10*confidence, 2) over the
\* evaluator dimension scores of a Score row, null when one of them is null
WeightedEvaluatorTotal(score_row) ==
    IF \/ score_row.evaluator_communication_score = NULL
       \/ score_row.evaluator_content_score = NULL
       \/ score_row.evaluator_confidence_score = NULL
    THEN NULL
    ELSE Some(RoundDiv(45 * Val(score_row.evaluator_communication_score)
                       + 45 * Val(score_row.evaluator_content_score)
                       + 10 * Val(score_row.evaluator_confidence_score), 100))

\* C20 as stated: after every admin score override request the stored
\* evaluator total is the rounded weighted sum of the stored evaluator
\* dimension scores when all three are non-null, and null otherwise.
ClaimC20 ==
    Called("upsert_admin_session_scores") =>
        fn_result.value.evaluator_total_score = WeightedEvaluatorTotal(fn_result.value)

\* C20, amended: after an override request that sets a dimension score and no
\* total_score, the stored evaluator total is the rounded weighted sum of the
\* stored dimension scores when all three are non-null and null otherwise; a
\* request that sets total_score stores that total as it is, and a request
\* that sets nothing leaves the total as it was.
TheoremC20 ==
    Called("upsert_admin_session_scores") =>
        LET sets == DOMAIN fn_call.updates
            total == fn_result.value.evaluator_total_score
        IN  /\ "communication_score" \in sets =>
                  fn_result.value.evaluator_communication_score
                      = fn_call.updates["communication_score"]
            /\ "content_score" \in sets =>
                  fn_result.value.evaluator_content_score = fn_call.updates["content_score"]
            /\ "confidence_score" \in sets =>
                  fn_result.value.evaluator_confidence_score
                      = fn_call.updates["confidence_score"]
            /\ IF "total_score" \in sets THEN total = fn_call.updates["total_score"]
               ELSE IF sets = {} THEN total = fn_call.score_row.evaluator_total_score
               ELSE total = WeightedEvaluatorTotal(fn_result.value)

WitnessC20 ==
    /\ Called("upsert_admin_session_scores")
    /\ DOMAIN fn_call.updates = {"communication_score"}
    /\ fn_call.score_row.evaluator_total_score = Some(600)
    /\ fn_result.value.evaluator_communication_score = Some(800)
    /\ fn_result.value.evaluator_content_score = Some(700)
    /\ fn_result.value.evaluator_confidence_score = Some(600)
    /\ fn_result.value.evaluator_total_score = Some(735)

\* ---------------------------------------------------------------- C21
\* The primary store holds no row of session s.
NoRowsOf(sessions, responses, score_rows, s) ==
    /\ ~sessions[s].present
    /\ SessionQuestions(sessions, s) = {}
    /\ ResponsesOf(responses, s) = {}
    /\ ~score_rows[s].present

\* C21: when the admin delete of a session succeeds, it leaves the primary
\* store without a CandidateSession, SessionQuestion, CandidateResponse or
\* Score row of that session: they are removed together.
TheoremC21 ==
    [][\A s \in SessionIds :
          (delete_returned[s] = "none" /\ delete_returned'[s] = "deleted")
          => NoRowsOf(candidate_sessions', candidate_responses', scores', s)]_vars

WitnessC21 ==
    \E s \in SessionIds :
        /\ delete_returned[s] = "deleted"
        /\ \A q \in Questions : upload_returned[<<s, q>>] # <<>>
        /\ NoRowsOf(candidate_sessions, candidate_responses, scores, s)

\* ---------------------------------------------------------------- C22
\* C22 as stated: clean_text is idempotent, clean_text(clean_text(x)) =
\* clean_text(x), over the texts of words some of which differ only in letter
\* case.
ClaimC22 ==
    Called("clean_text") => CleanText(fn_result.value) = fn_result.value

\* ---------------------------------------------------------------- C23
EvaluatorFields(score_row) ==
    <<score_row.evaluator_communication_score, score_row.evaluator_content_score,
      score_row.evaluator_confidence_score, score_row.evaluator_total_score>>

AiFields(score_row) == <<score_row.ai_total_score>>

\* A step of an evaluate_session call, of a thread or of the manual endpoint.
EvaluationStep == threads' # threads \/ manual_evals' # manual_evals

\* The step removes the session row: the delete endpoint.
DeleteStep(s) == candidate_sessions[s].present /\ ~candidate_sessions'[s].present

\* The step leaves the users, the sessions, the responses, the uploads and the
\* in-flight set alone: it is none of session start, upload, list and detail.
ScoreOnlyStep ==
    UNCHANGED <<users, candidate_sessions, issued, candidate_responses,
                evaluation_inflight, pending_uploads, upload_returned>>

\* C23: a step of evaluate_session leaves the evaluator_* fields of every
\* Score row as they were; the ai_* fields of a row that stays change only in
\* a step of evaluate_session; and a Score row is created or changed only by a
\* step of evaluate_session or by the admin score override (the delete
\* endpoint removes it).
TheoremC23 ==
    [][\A s \in SessionIds :
          /\ EvaluationStep
             => EvaluatorFields(scores'[s]) = EvaluatorFields(scores[s])
          /\ (scores'[s].present /\ AiFields(scores'[s]) # AiFields(scores[s]))
             => EvaluationStep
          /\ scores'[s] # scores[s]
             => (EvaluationStep \/ DeleteStep(s) \/ ScoreOnlyStep)]_vars

\* A Score row that both the evaluation and the admin override have written.
WitnessC23 ==
    \E s \in SessionIds :
        /\ scores[s].present
        /\ scores[s].ai_total_score # NULL
        /\ scores[s].evaluator_total_score # NULL

\* ---------------------------------------------------------------- C24
MissingResponse(s) ==
    \E q \in SessionQuestions(candidate_sessions, s) :
        ~\E r \in ResponsesOf(candidate_responses, s) : r.question_id = q

\* C24 as stated: in every reachable state a session whose status is
\* submitted or completed has an uploaded response for every one of its
\* assigned questions.
ClaimC24 ==
    \A s \in SessionIds :
        (candidate_sessions[s].present
         /\ candidate_sessions[s].status \in {"submitted", "completed"})
        => ~MissingResponse(s)

\* ---------------------------------------------------------------- C25
\* The request is for a session of another user than the one who makes it.
ForeignRequest ==
    /\ fn_call.function \in CandidateRequests
    /\ fn_result.function = fn_call.function
    /\ fn_call.sessions[1].present
    /\ fn_call.sessions[1].candidate_id # fn_call.email

\* C25: an upload, upload-status or progress request for a session whose
\* candidate_id differs from the email of the user who makes it is answered
\* with 403 and leaves the sessions, the responses, the in-flight set and the
\* threads as they were.
TheoremC25 ==
    ForeignRequest
    => /\ fn_result.value.status = 403
       /\ fn_result.value.sessions = fn_call.sessions
       /\ fn_result.value.responses = fn_call.responses
       /\ fn_result.value.inflight = fn_call.inflight
       /\ fn_result.value.threads = fn_call.threads

\* A rejected upload of the last missing response of an in_progress session:
\* let through, it would have stored the row and enqueued the evaluation.
WitnessC25 ==
    /\ ForeignRequest
    /\ fn_call.function = "upload_candidate_response"
    /\ fn_call.sessions[1].status = "in_progress"
    /\ fn_call.question_id \in Questions
    /\ { r.question_id : r \in fn_call.responses } = Questions \ {fn_call.question_id}
    /\ fn_result.value.status = 403

\* ---------------------------------------------------------------- C26
\* The evaluate_session calls in progress for session s: those of its threads
\* that are inside the call, and those of the manual endpoint.
EvaluationsInProgress(s) ==
    Cardinality({ i \in DOMAIN threads[s] : threads[s][i].pc = "questions" })
    + Cardinality({ i \in DOMAIN manual_evals : manual_evals[i].session_id = s })

\* C26 as stated: at no time are two executions of evaluate_session in
\* progress for the same session id, whether a background task or the admin
\* manual-evaluate endpoint started them.
ClaimC26 == \A s \in SessionIds : EvaluationsInProgress(s) <= 1

StartsEvaluation(s) == s \notin evaluation_inflight /\ s \in evaluation_inflight'

\* C28 as stated: a session that is completed, which only a normal return of
\* evaluate_session makes it, gets no further evaluation enqueued by a repeat
\* upload, an admin results-list load or an admin session-detail load.
ClaimC28 ==
    [][\A s \in SessionIds :
          (candidate_sessions[s].present /\ candidate_sessions[s].status = "completed")
          => ~StartsEvaluation(s)]_vars

\* ---------------------------------------------------------------- C29
\* C29 as stated: for every LLM output that _sanitize accepts, the
\* communication_score and the confidence_score that score_answer returns
\* equal the sanitized communication_score and confidence_score.
ClaimC29 ==
    (Called("score_response") /\ ~fn_result.value.raised) =>
        /\ fn_result.value.score.communication_score =
               Val(fn_result.value.llm_scores.communication_score)
        /\ fn_result.value.score.confidence_score =
               Val(fn_result.value.llm_scores.confidence_score)

\* ---------------------------------------------------------------- C30
\* C30: a step of an evaluation (of a thread, its failure handler included,
\* or of the manual endpoint) of a session whose row the delete endpoint has
\* removed writes no CandidateSession, CandidateResponse or Score row of that
\* session, and no Score row exists for a session that has no row.
TheoremC30 ==
    /\ [][\A s \in SessionIds :
            (EvaluationStep /\ ~candidate_sessions[s].present)
            => /\ candidate_sessions'[s] = candidate_sessions[s]
               /\ scores'[s] = scores[s]
               /\ ResponsesOf(candidate_responses', s) = ResponsesOf(candidate_responses, s)]_vars
    /\ [](\A s \in SessionIds : ~candidate_sessions[s].present => ~scores[s].present)

\* The session was deleted while its thread was in flight, and the thread has
\* since made all its attempts: no row of the session is there.
WitnessC30 ==
    \E s \in SessionIds : \E i \in DOMAIN threads[s] :
        /\ delete_returned[s] = "deleted"
        /\ threads[s][i].pc = "exit"
        /\ threads[s][i].calls = RetryCount
        /\ NoRowsOf(candidate_sessions, candidate_responses, scores, s)

====
